---------------------------- MODULE Spec2Model ----------------------------
(* A model of login_script.py: the run_login flow, its helpers and the     *)
(* page it drives.  The page (its location, which elements are visible,    *)
(* which calls time out) and the user (the interrupt signal) are the       *)
(* environment and are chosen nondeterministically.                        *)
(*                                                                         *)
(* A location is a sequence of tokens; the token boundaries are chosen so  *)
(* that every pattern the script searches for is a run of whole tokens,    *)
(* and `pattern in url` is contiguous-subsequence search.                  *)
EXTENDS Integers, Sequences, FiniteSets, TLC

(* ------------------------------ configuration --------------------------- *)

MAX_2FA_RETRIES == 3

DEVICE_WAIT_TICKS == 60

DEVICE_CHECK_EVERY == 10

MIN_INDICATORS == 2

EXIT_FAILURE == 1

EXIT_INTERRUPT == 130

(* ------------------------------ locations ------------------------------- *)

CLAW_CLOUD_URL == <<"claw.cloud", "/">>

ClawSignin == <<"claw.cloud", "/", "signin">>

ClawSignInCaps == <<"claw.cloud", "/", "SignIn">>

GhLogin == <<"github.com", "/", "login">>

GhTwoFactor == <<"github.com", "/", "session", "s", "/", "two-factor">>

GhDevice == <<"github.com", "/", "session", "s", "/", "verified-device">>

GhOAuth ==
    <<"github.com", "/", "login", "/", "oauth", "/", "authorize", "?", "claw.cloud">>

Elsewhere == <<"example.org", "/">>

URLS ==
    {CLAW_CLOUD_URL, ClawSignin, ClawSignInCaps, GhLogin, GhTwoFactor, GhDevice,
     GhOAuth, Elsewhere}

(* str.lower() on one token *)
LowerToken(t) == IF t = "SignIn" THEN "signin" ELSE t

(* str.lower() on a location *)
Lower(u) == [k \in 1..Len(u) |-> LowerToken(u[k])]

(* Python's `pat in u` on strings *)
Contains(pat, u) ==
    \E k \in 0..(Len(u) - Len(pat)) : SubSeq(u, k + 1, k + Len(pat)) = pat

(* line 448, negated: 'signin' in page.url.lower() *)
LooksLikeSigninCaseSensitive(u) == Contains(<<"signin">>, u)

LooksLikeSignin(u) == Contains(<<"signin">>, Lower(u))

IsLoginFormOrSignin(u) ==
    \/ Contains(<<"github.com", "/", "login">>, u)
    \/ Contains(<<"github.com", "/", "session">>, u)
    \/ Contains(<<"signin">>, u)

(* line 464 *)
IsLoginForm(u) ==
    \/ Contains(<<"github.com", "/", "login">>, u)
    \/ Contains(<<"github.com", "/", "session">>, u)

(* lines 284, 296, 476 *)
IsDeviceVerification(u) ==
    \/ Contains(<<"verified-device">>, u)
    \/ Contains(<<"device-verification">>, u)

(* lines 224, 483 *)
IsTwoFactor(u) ==
    \/ Contains(<<"two-factor">>, u)
    \/ Contains(<<"session", "s", "/", "two-factor">>, u)

(* line 492 *)
IsOAuthAuthorize(u) ==
    Contains(<<"github.com", "/", "login", "/", "oauth", "/", "authorize">>, u)

(* ------------------------------ credentials ----------------------------- *)

USERNAMES == {"", "octocat"}

PASSWORDS == {"", "hunter2"}

(* "" : GH_2FA_SECRET unset; "JBSWY3DPEHPK3PXP" : a base32 seed;            *)
(* "not base32!" : a seed pyotp cannot decode, so totp.now() raises         *)
SECRETS == {"", "JBSWY3DPEHPK3PXP", "not base32!"}

SeedDecodes(s) == s = "JBSWY3DPEHPK3PXP"

MissingCredentialsBoth(u, p) == u = "" /\ p = ""

(* line 402: not username or not password *)
MissingCredentials(u, p) == u = "" \/ p = ""

(* ------------------------------ state ----------------------------------- *)

VARIABLES
    pc,            \* position in run_login and its helpers
    username,
    password,
    totp_secret,
    browser,       \* "none" | "open" | "closed" (browser.close()) | "killed" (driver stopped)
    pageOpen,      \* context.new_page() has returned
    url,           \* page.url, the page's location
    current_url,   \* run_login's local current_url
    pending,       \* the status sys.exit was called with, while unwinding
    exitCode,      \* the process's exit status; -1 while it runs
    interrupted,   \* a KeyboardInterrupt has been delivered
    trace,         \* the flow steps entered, in order
    loadIdle,      \* the wait of line 432: "none" | "idle" | "timeout"
    providerButton,\* try_click on the provider button: "none" | "clicked" | "absent"
    failedAt,      \* the step whose failure run_login turned into sys.exit(1)
    credsTyped,    \* username and password have been filled into the page
    attempt,       \* handle_2fa_verification's loop variable
    codes,         \* codes totp.now() has produced
    submissions,   \* codes submitted
    windowSleeps,  \* sleeps to the next 30-second window (line 250)
    tfaResult,     \* handle_2fa_verification's return value: "none" | "ok" | "fail"
    clock,         \* time.time() during handle_2fa_verification, in seconds since the
                   \* start of the 30-second window in which it was entered
    codeAt,        \* clock when the latest code was generated; -1: none
    rejectedAt,    \* codeAt of the code the latest check rejected; -1: none
    lastWait,      \* the argument of the latest sleep of line 250; 0: none
    i,             \* handle_device_verification's loop variable
    devLeftAt,     \* tick since which the location has not matched; 0: it matches
    devResult,     \* handle_device_verification's return value
    devTicks,      \* one-second sleeps done when handle_device_verification returned
    indicators,    \* verify_login_success's success_indicators
    signals,       \* the four signals as the page showed them to verify_login_success
    verdict        \* "none" | "pass" | "fail"

vars ==
    <<pc, username, password, totp_secret, browser, pageOpen, url, current_url,
      pending, exitCode, interrupted, trace, loadIdle, providerButton, failedAt,
      credsTyped, attempt, codes, submissions, windowSleeps, tfaResult, clock,
      codeAt, rejectedAt, lastWait, i, devLeftAt, devResult,
      devTicks, indicators, signals, verdict>>

credVars == <<username, password, totp_secret>>

tfaVars == <<attempt, codes, submissions, windowSleeps, tfaResult>>

clockVars == <<clock, codeAt, rejectedAt, lastWait>>

devVars == <<i, devLeftAt, devResult, devTicks>>

verifyVars == <<indicators, signals, verdict>>

Did(step) == \E k \in 1..Len(trace) : trace[k] = step

Init ==
    /\ pc = "start"
    /\ username \in USERNAMES
    /\ password \in PASSWORDS
    /\ totp_secret \in SECRETS
    /\ browser = "none"
    /\ pageOpen = FALSE
    /\ url = <<>>
    /\ current_url = <<>>
    /\ pending = -1
    /\ exitCode = -1
    /\ interrupted = FALSE
    /\ trace = <<>>
    /\ loadIdle = "none"
    /\ providerButton = "none"
    /\ failedAt = "none"
    /\ credsTyped = FALSE
    /\ attempt = 0
    /\ codes = 0
    /\ submissions = 0
    /\ windowSleeps = 0
    /\ tfaResult = "none"
    /\ clock = 0
    /\ codeAt = -1
    /\ rejectedAt = -1
    /\ lastWait = 0
    /\ i = 0
    /\ devLeftAt = 0
    /\ devResult = "none"
    /\ devTicks = 0
    /\ indicators = <<>>
    /\ signals = <<FALSE, FALSE, FALSE, FALSE>>
    /\ verdict = "none"


(* ------------------------------ unwinding ------------------------------- *)

(* sys.exit(code) or a raised exception inside run_login's try, as seen by  *)
(* the except clauses (lines 521-536): the status the process will end with *)
Unwind(code) ==
    /\ pending' = code
    /\ pc' = "finally"

(* an exception other than KeyboardInterrupt raised in the try body:        *)
(* `except Exception` logs it and calls sys.exit(1)                          *)
RaiseException ==
    /\ Unwind(EXIT_FAILURE)
    /\ UNCHANGED <<credVars, providerButton, loadIdle, clockVars, browser, pageOpen, url, current_url, exitCode,
                   interrupted, failedAt, credsTyped, tfaVars, devVars, verifyVars>>

(* a fatal step: run_login logs the failure and calls sys.exit(1)           *)
Fatal(step) ==
    /\ failedAt' = step
    /\ Unwind(EXIT_FAILURE)

FinallyLeaksBrowser ==
    /\ pc = "finally"
    /\ pc' = "with_exit"
    /\ UNCHANGED <<credVars, providerButton, loadIdle, clockVars, browser, pageOpen, url, current_url, pending,
                   exitCode, interrupted, trace, failedAt, credsTyped, tfaVars,
                   devVars, verifyVars>>

(* lines 538-539: finally: browser.close() *)
Finally ==
    /\ pc = "finally"
    /\ browser' = "closed"
    /\ pc' = "with_exit"
    /\ UNCHANGED <<credVars, providerButton, loadIdle, clockVars, pageOpen, url, current_url, pending, exitCode,
                   interrupted, trace, failedAt, credsTyped, tfaVars, devVars,
                   verifyVars>>

(* line 411: leaving `with sync_playwright()` stops the driver, which ends   *)
(* the browsers it launched; the process then ends with the pending status  *)
PlaywrightExit ==
    /\ pc = "with_exit"
    /\ browser' = IF browser = "open" THEN "killed" ELSE browser
    /\ exitCode' = pending
    /\ pc' = "exited"
    /\ UNCHANGED <<credVars, providerButton, loadIdle, clockVars, pageOpen, url, current_url, pending, interrupted,
                   trace, failedAt, credsTyped, tfaVars, devVars, verifyVars>>

(* ------------------------------ run_login: start ------------------------ *)

(* lines 392-407 *)
CheckCredentials ==
    /\ pc = "start"
    /\ IF MissingCredentials(username, password)
       THEN /\ exitCode' = EXIT_FAILURE
            /\ pc' = "exited"
       ELSE /\ pc' = "launch"
            /\ UNCHANGED exitCode
    /\ UNCHANGED <<credVars, providerButton, loadIdle, clockVars, browser, pageOpen, url, current_url, pending,
                   interrupted, trace, failedAt, credsTyped, tfaVars, devVars,
                   verifyVars>>

(* lines 411-419: p.chromium.launch(); a failure is not caught by anything  *)
LaunchBrowser ==
    /\ pc = "launch"
    /\ \E ok \in BOOLEAN :
          IF ok
          THEN /\ browser' = "open"
               /\ pc' = "context"
               /\ UNCHANGED pending
          ELSE /\ pending' = EXIT_FAILURE
               /\ pc' = "with_exit"
               /\ UNCHANGED browser
    /\ UNCHANGED <<credVars, providerButton, loadIdle, clockVars, pageOpen, url, current_url, exitCode, interrupted,
                   trace, failedAt, credsTyped, tfaVars, devVars, verifyVars>>

(* lines 421-426: new_context() and new_page(), outside the try block       *)
NewContextPage ==
    /\ pc = "context"
    /\ \E ok \in BOOLEAN :
          IF ok
          THEN /\ pageOpen' = TRUE
               /\ pc' = "goto"
               /\ UNCHANGED pending
          ELSE /\ pending' = EXIT_FAILURE
               /\ pc' = "with_exit"
               /\ UNCHANGED pageOpen
    /\ UNCHANGED <<credVars, providerButton, loadIdle, clockVars, browser, url, current_url, exitCode, interrupted,
                   trace, failedAt, credsTyped, tfaVars, devVars, verifyVars>>

(* lines 429-431: page.goto(CLAW_CLOUD_URL); the site may redirect          *)
Goto ==
    /\ pc = "goto"
    /\ trace' = Append(trace, "load")
    /\ \/ /\ \E u \in URLS : url' = u
          /\ pc' = "idle"
          /\ UNCHANGED <<credVars, providerButton, loadIdle, clockVars, browser, pageOpen, current_url, pending,
                         exitCode, interrupted, failedAt, credsTyped, tfaVars,
                         devVars, verifyVars>>
       \/ RaiseException

(* lines 432-434: wait_for_load_state("networkidle"), not guarded *)
WaitIdleAfterLoad ==
    /\ pc = "idle"
    /\ UNCHANGED <<credVars, providerButton, clockVars, browser, pageOpen, current_url,
                   exitCode, interrupted, trace, failedAt, credsTyped, tfaVars,
                   devVars, verifyVars>>
    /\ \/ /\ loadIdle' = "idle"
          /\ \E u \in URLS : url' = u
          /\ pc' = "button"
          /\ UNCHANGED pending
       \/ /\ loadIdle' = "timeout"
          /\ Unwind(EXIT_FAILURE)
          /\ UNCHANGED url

(* lines 436-453: try_click on the provider button; when none is clickable  *)
(* the location decides between skipping and sys.exit(1)                    *)
ClickProviderButton ==
    /\ pc = "button"
    /\ trace' = Append(trace, "button")
    /\ UNCHANGED <<credVars, loadIdle, clockVars, browser, pageOpen, current_url, exitCode,
                   interrupted, credsTyped, tfaVars, devVars, verifyVars>>
    /\ \/ /\ providerButton' = "clicked"
          /\ \E u \in URLS : url' = u
          /\ pc' = "redirect"
          /\ UNCHANGED <<pending, failedAt>>
       \/ /\ providerButton' = "absent"
          /\ ~LooksLikeSignin(url)
          /\ pc' = "redirect"
          /\ UNCHANGED <<url, pending, failedAt>>
       \/ /\ providerButton' = "absent"
          /\ LooksLikeSignin(url)
          /\ Fatal("button")
          /\ UNCHANGED url

(* lines 455-461: sleep, wait_for_load_state (not guarded), read page.url   *)
WaitRedirect ==
    /\ pc = "redirect"
    /\ UNCHANGED trace
    /\ \/ /\ \E u \in URLS : url' = u
          /\ current_url' = url'
          /\ pc' = "step6"
          /\ UNCHANGED <<credVars, providerButton, loadIdle, clockVars, browser, pageOpen, pending, exitCode,
                         interrupted, failedAt, credsTyped, tfaVars, devVars,
                         verifyVars>>
       \/ RaiseException

(* ------------------------------ step 6: credentials --------------------- *)

(* line 464 *)
Step6Login ==
    /\ pc = "step6"
    /\ IF IsLoginForm(current_url)
       THEN /\ trace' = Append(trace, "credentials")
            /\ pc' = "creds_form"
       ELSE /\ pc' = "step7"
            /\ UNCHANGED trace
    /\ UNCHANGED <<credVars, providerButton, loadIdle, clockVars, browser, pageOpen, url, current_url, pending,
                   exitCode, interrupted, failedAt, credsTyped, tfaVars, devVars,
                   verifyVars>>

(* lines 65-79 and 97-100, 465-467: wait for the form and fill it; any      *)
(* exception makes fill_github_credentials return False, which is fatal     *)
FillCredentials ==
    /\ pc = "creds_form"
    /\ UNCHANGED <<credVars, providerButton, loadIdle, clockVars, browser, pageOpen, url, current_url, exitCode,
                   interrupted, trace, tfaVars, devVars, verifyVars>>
    /\ \/ /\ credsTyped' = TRUE
          /\ pc' = "creds_submit"
          /\ UNCHANGED <<pending, failedAt>>
       \/ /\ \E typed \in BOOLEAN : credsTyped' = typed
          /\ Fatal("credentials")

(* lines 82-95, 465-467: try_click on the submit control *)
SubmitCredentials ==
    /\ pc = "creds_submit"
    /\ UNCHANGED <<credVars, providerButton, loadIdle, clockVars, browser, pageOpen, current_url, exitCode,
                   interrupted, trace, credsTyped, tfaVars, devVars, verifyVars>>
    /\ \/ /\ \E u \in URLS : url' = u
          /\ pc' = "creds_wait"
          /\ UNCHANGED <<pending, failedAt>>
       \/ /\ Fatal("credentials")
          /\ UNCHANGED url

WaitAfterLoginRetries ==
    /\ pc = "creds_wait"
    /\ \E u \in URLS : url' = u
    /\ current_url' = url'
    /\ pc' = "step6"
    /\ UNCHANGED <<credVars, providerButton, loadIdle, clockVars, browser, pageOpen, pending,
                   exitCode, interrupted, trace, failedAt, credsTyped, tfaVars,
                   devVars, verifyVars>>

(* lines 469-473 *)
WaitAfterLogin ==
    /\ pc = "creds_wait"
    /\ UNCHANGED trace
    /\ \/ /\ \E u \in URLS : url' = u
          /\ current_url' = url'
          /\ pc' = "step7"
          /\ UNCHANGED <<credVars, providerButton, loadIdle, clockVars, browser, pageOpen, pending, exitCode,
                         interrupted, failedAt, credsTyped, tfaVars, devVars,
                         verifyVars>>
       \/ RaiseException

(* ------------------------------ step 7: device verification ------------ *)

(* line 476 *)
Step7Device ==
    /\ pc = "step7"
    /\ IF IsDeviceVerification(current_url)
       THEN /\ trace' = Append(trace, "device")
            /\ pc' = "dev_poll"
       ELSE /\ pc' = "step8"
            /\ UNCHANGED trace
    /\ UNCHANGED <<credVars, providerButton, loadIdle, clockVars, browser, pageOpen, url, current_url, pending,
                   exitCode, interrupted, failedAt, credsTyped, tfaVars, devVars,
                   verifyVars>>

(* line 279: the location is read only in iterations with i % 10 == 0 *)
ChecksAtIteration(k) == k % DEVICE_CHECK_EVERY = 0

(* the tick since which the page has been off the device-verification       *)
(* location, after one more second in which the page moved to u             *)
LeftAt(u) ==
    IF IsDeviceVerification(u) THEN 0
    ELSE IF devLeftAt = 0 THEN i + 1 ELSE devLeftAt

(* lines 276-291: one iteration of the polling loop: sleep one second (the  *)
(* page may move meanwhile), then, in a checking iteration, read page.url   *)
DeviceTick ==
    /\ pc = "dev_poll"
    /\ \E u \in URLS :
          /\ url' = u
          /\ devLeftAt' = LeftAt(u)
          /\ IF ChecksAtIteration(i) /\ ~IsDeviceVerification(u)
             THEN /\ devResult' = "ok"
                  /\ devTicks' = i + 1
                  /\ pc' = "dev_ret"
                  /\ UNCHANGED i
             ELSE /\ i' = i + 1
                  /\ pc' = IF i + 1 = DEVICE_WAIT_TICKS THEN "dev_final" ELSE "dev_poll"
                  /\ UNCHANGED <<devResult, devTicks>>
    /\ UNCHANGED <<credVars, providerButton, loadIdle, clockVars, browser, pageOpen, current_url, pending, exitCode,
                   interrupted, trace, failedAt, credsTyped, tfaVars, verifyVars>>

(* lines 293-303: the check after the loop *)
DeviceFinalCheck ==
    /\ pc = "dev_final"
    /\ devResult' = IF IsDeviceVerification(url) THEN "fail" ELSE "ok"
    /\ devTicks' = i
    /\ pc' = "dev_ret"
    /\ UNCHANGED <<credVars, providerButton, loadIdle, clockVars, browser, pageOpen, url, current_url, pending,
                   exitCode, interrupted, trace, failedAt, credsTyped, tfaVars, i,
                   devLeftAt, verifyVars>>

(* lines 477-480; the helper's locals end with the call *)
DeviceReturn ==
    /\ pc = "dev_ret"
    /\ IF devResult = "fail"
       THEN /\ Fatal("device")
            /\ UNCHANGED current_url
       ELSE /\ current_url' = url
            /\ pc' = "step8"
            /\ UNCHANGED <<pending, failedAt>>
    /\ i' = 0
    /\ devLeftAt' = 0
    /\ devTicks' = 0
    /\ UNCHANGED <<credVars, providerButton, loadIdle, clockVars, browser, pageOpen, url, exitCode, interrupted,
                   trace, credsTyped, tfaVars, devResult, verifyVars>>

(* ------------------------------ step 8: two-factor ---------------------- *)

(* line 483 *)
Step8TwoFactor ==
    /\ pc = "step8"
    /\ IF IsTwoFactor(current_url)
       THEN /\ trace' = Append(trace, "twofactor")
            /\ pc' = "tfa_start"
       ELSE /\ pc' = "step9"
            /\ UNCHANGED trace
    /\ UNCHANGED <<credVars, providerButton, loadIdle, clockVars, browser, pageOpen, url, current_url, pending,
                   exitCode, interrupted, failedAt, credsTyped, tfaVars, devVars,
                   verifyVars>>

TOTP_PERIOD == 30

(* the seconds a successful fill, submit and wait takes: 0.5 + 0.5 +        *)
(* WAIT_AFTER_2FA (lines 180-211), then up to 10 more for the network to go *)
(* idle (line 215)                                                          *)
FILL_SECONDS == {6, 16}

WindowWaitFixed(t) == 3

WindowWaitNoBuffer(t) == TOTP_PERIOD - (t % TOTP_PERIOD)

(* line 250: 32 - (time.time() % 30) *)
WindowWait(t) == 32 - (t % TOTP_PERIOD)

TfaStartIgnoresSeed ==
    /\ pc = "tfa_start"
    /\ pc' = "tfa_gen"
    /\ clock' \in 0..(TOTP_PERIOD - 1)
    /\ UNCHANGED <<credVars, providerButton, loadIdle, browser, pageOpen, url, current_url, pending,
                   exitCode, interrupted, trace, failedAt, credsTyped, tfaVars,
                   codeAt, rejectedAt, lastWait, devVars, verifyVars>>

(* lines 105-111 and 136: without a seed the function returns False; with   *)
(* one the loop is entered, at whatever phase of the 30-second window the   *)
(* wall clock is in                                                         *)
TfaStart ==
    /\ pc = "tfa_start"
    /\ IF totp_secret = ""
       THEN /\ tfaResult' = "fail"
            /\ pc' = "tfa_ret"
            /\ UNCHANGED clock
       ELSE /\ pc' = "tfa_gen"
            /\ clock' \in 0..(TOTP_PERIOD - 1)
            /\ UNCHANGED tfaResult
    /\ UNCHANGED <<credVars, providerButton, loadIdle, browser, pageOpen, url, current_url, pending,
                   exitCode, interrupted, trace, failedAt, credsTyped, attempt,
                   codes, submissions, windowSleeps, codeAt, rejectedAt, lastWait,
                   devVars, verifyVars>>

(* lines 137-146: pyotp.TOTP(seed).now(); a seed that does not decode       *)
(* raises, and the function returns False                                   *)
TfaGenerate ==
    /\ pc = "tfa_gen"
    /\ IF SeedDecodes(totp_secret)
       THEN /\ codes' = codes + 1
            /\ codeAt' = clock
            /\ pc' = "tfa_find"
            /\ UNCHANGED tfaResult
       ELSE /\ tfaResult' = "fail"
            /\ pc' = "tfa_ret"
            /\ UNCHANGED <<codes, codeAt>>
    /\ UNCHANGED <<credVars, providerButton, loadIdle, browser, pageOpen, url, current_url, pending,
                   exitCode, interrupted, trace, failedAt, credsTyped, attempt,
                   submissions, windowSleeps, clock, rejectedAt, lastWait,
                   devVars, verifyVars>>

IsLastAttemptOffByOne(a) == a = MAX_2FA_RETRIES

(* lines 172, 248, 256: attempt == MAX_2FA_RETRIES - 1 *)
IsLastAttempt(a) == a = MAX_2FA_RETRIES - 1

NextAttemptNeverGivesUp ==
    /\ pc' = "tfa_gen"
    /\ UNCHANGED <<attempt, tfaResult>>

(* the for statement of line 136 taking its next value, or running out      *)
NextAttempt ==
    IF IsLastAttempt(attempt)
    THEN /\ tfaResult' = "fail"
         /\ pc' = "tfa_ret"
         /\ UNCHANGED attempt
    ELSE /\ attempt' = attempt + 1
         /\ pc' = "tfa_gen"
         /\ UNCHANGED tfaResult

(* lines 148-174: look for a visible input; without one, sleep 3 s and go   *)
(* to the next attempt, or return False in the last one                     *)
TfaFindInput ==
    /\ pc = "tfa_find"
    /\ \/ /\ pc' = "tfa_fill"
          /\ UNCHANGED <<attempt, tfaResult, clock>>
       \/ /\ clock' = clock + 3
          /\ NextAttempt
    /\ rejectedAt' = -1
    /\ lastWait' = 0
    /\ UNCHANGED <<credVars, providerButton, loadIdle, browser, pageOpen, url, current_url, pending,
                   exitCode, interrupted, trace, failedAt, credsTyped, codes,
                   submissions, windowSleeps, codeAt, devVars, verifyVars>>

(* lines 176-217 and 252-258: fill the code, submit it, wait; an exception  *)
(* on the way sleeps 3 s if attempts remain and goes to the next attempt    *)
TfaFillSubmit ==
    /\ pc = "tfa_fill"
    /\ \/ /\ submissions' = submissions + 1
          /\ \E u \in URLS : url' = u
          /\ \E d \in FILL_SECONDS : clock' = clock + d
          /\ pc' = "tfa_check"
          /\ UNCHANGED <<attempt, tfaResult>>
       \/ /\ \E submitted \in BOOLEAN :
                IF submitted
                THEN /\ submissions' = submissions + 1
                     /\ \E u \in URLS : url' = u
                ELSE UNCHANGED <<submissions, url>>
          /\ clock' = IF IsLastAttempt(attempt) THEN clock ELSE clock + 3
          /\ NextAttempt
    /\ UNCHANGED <<credVars, providerButton, loadIdle, browser, pageOpen, current_url, pending, exitCode,
                   interrupted, trace, failedAt, credsTyped, codes, windowSleeps,
                   codeAt, rejectedAt, lastWait, devVars, verifyVars>>

TfaCheckNeverReturnsEarly ==
    /\ pc = "tfa_check"
    /\ windowSleeps' = IF IsLastAttempt(attempt) THEN windowSleeps ELSE windowSleeps + 1
    /\ IF IsLastAttempt(attempt)
       THEN /\ tfaResult' = IF IsTwoFactor(url) THEN "fail" ELSE "ok"
            /\ pc' = "tfa_ret"
            /\ UNCHANGED attempt
       ELSE /\ attempt' = attempt + 1
            /\ pc' = "tfa_gen"
            /\ UNCHANGED tfaResult
    /\ UNCHANGED <<credVars, providerButton, loadIdle, browser, pageOpen, clockVars, url, current_url, pending,
                   exitCode, interrupted, trace, failedAt, credsTyped, codes,
                   submissions, devVars, verifyVars>>

(* lines 219-250: off the two-factor location: return True; still on it:    *)
(* sleep to the next 30-second window if attempts remain, then loop         *)
TfaCheck ==
    /\ pc = "tfa_check"
    /\ IF ~IsTwoFactor(url)
       THEN /\ tfaResult' = "ok"
            /\ pc' = "tfa_ret"
            /\ UNCHANGED <<attempt, windowSleeps, clock, rejectedAt, lastWait>>
       ELSE /\ windowSleeps' =
                  IF IsLastAttempt(attempt) THEN windowSleeps ELSE windowSleeps + 1
            /\ lastWait' = IF IsLastAttempt(attempt) THEN 0 ELSE WindowWait(clock)
            /\ clock' = clock + lastWait'
            /\ rejectedAt' = codeAt
            /\ NextAttempt
    /\ UNCHANGED <<credVars, providerButton, loadIdle, browser, pageOpen, url, current_url, pending,
                   exitCode, interrupted, trace, failedAt, credsTyped, codes,
                   submissions, codeAt, devVars, verifyVars>>

TfaReturnIgnoresFailure ==
    /\ pc = "tfa_ret"
    /\ current_url' = url
    /\ pc' = "step9"
    /\ UNCHANGED <<credVars, providerButton, loadIdle, browser, pageOpen, clockVars, url, pending,
                   exitCode, interrupted, trace, failedAt, credsTyped, tfaVars,
                   devVars, verifyVars>>

(* lines 484-488; the clock is not looked at after the helper has returned  *)
TfaReturn ==
    /\ pc = "tfa_ret"
    /\ IF tfaResult = "fail"
       THEN /\ Fatal("twofactor")
            /\ UNCHANGED current_url
       ELSE /\ current_url' = url
            /\ pc' = "step9"
            /\ UNCHANGED <<pending, failedAt>>
    /\ clock' = 0
    /\ codeAt' = -1
    /\ rejectedAt' = -1
    /\ lastWait' = 0
    /\ UNCHANGED <<credVars, providerButton, loadIdle, browser, pageOpen, url, exitCode, interrupted,
                   trace, credsTyped, tfaVars, devVars, verifyVars>>

(* ------------------------------ step 9: OAuth consent ------------------- *)

(* lines 490-492: sleep 2 s (the page may move meanwhile), then test the    *)
(* local current_url                                                        *)
Step9OAuth ==
    /\ pc = "step9"
    /\ \E u \in URLS : url' = u
    /\ IF IsOAuthAuthorize(current_url)
       THEN /\ trace' = Append(trace, "oauth")
            /\ pc' = "oauth_click"
       ELSE /\ pc' = "final_wait"
            /\ UNCHANGED trace
    /\ UNCHANGED <<credVars, providerButton, loadIdle, clockVars, browser, pageOpen, current_url, pending, exitCode,
                   interrupted, failedAt, credsTyped, tfaVars, devVars, verifyVars>>

(* lines 306-324, 493: try_click on the authorize control; its result is    *)
(* not used by run_login                                                    *)
OAuthClick ==
    /\ pc = "oauth_click"
    /\ \/ \E u \in URLS : url' = u
       \/ UNCHANGED url
    /\ pc' = "oauth_wait"
    /\ UNCHANGED <<credVars, providerButton, loadIdle, clockVars, browser, pageOpen, current_url, pending, exitCode,
                   interrupted, trace, failedAt, credsTyped, tfaVars, devVars,
                   verifyVars>>

(* lines 494-495: sleep, wait_for_load_state (not guarded) *)
OAuthWait ==
    /\ pc = "oauth_wait"
    /\ UNCHANGED trace
    /\ \/ /\ \E u \in URLS : url' = u
          /\ pc' = "final_wait"
          /\ UNCHANGED <<credVars, providerButton, loadIdle, clockVars, browser, pageOpen, current_url, pending,
                         exitCode, interrupted, failedAt, credsTyped, tfaVars,
                         devVars, verifyVars>>
       \/ RaiseException

(* ------------------------------ steps 10-11: the verdict ---------------- *)

(* lines 497-504: sleep FINAL_WAIT, wait_for_load_state with its timeout    *)
(* caught                                                                   *)
FinalWait ==
    /\ pc = "final_wait"
    /\ \E u \in URLS : url' = u
    /\ pc' = "verify"
    /\ UNCHANGED <<credVars, providerButton, loadIdle, clockVars, browser, pageOpen, current_url, pending, exitCode,
                   interrupted, trace, failedAt, credsTyped, tfaVars, devVars,
                   verifyVars>>

(* lines 337-343: the two signals read from the location *)
UrlOnTarget(u) == Contains(<<"claw.cloud">>, u) /\ ~Contains(<<"signin">>, u)

OffProvider(u) == ~Contains(<<"github.com">>, u)

(* lines 335-376: success_indicators, one entry per signal that is present  *)
SuccessIndicators(u, landmark, menu) ==
    (IF UrlOnTarget(u) THEN <<"url">> ELSE <<>>)
        \o (IF OffProvider(u) THEN <<"left_provider">> ELSE <<>>)
        \o (IF landmark THEN <<"landmark">> ELSE <<>>)
        \o (IF menu THEN <<"user_menu">> ELSE <<>>)

IsSuccessNeedsOne(ind) == Len(ind) >= MIN_INDICATORS - 1

IsSuccessNeedsThree(ind) == Len(ind) >= MIN_INDICATORS + 1

(* line 381 *)
IsSuccess(ind) == Len(ind) >= MIN_INDICATORS

ExitStatusAlwaysZero(ok) == 0

(* lines 509-519: return normally, or sys.exit(1) *)
ExitStatus(ok) == IF ok THEN 0 ELSE EXIT_FAILURE

(* lines 506-519: verify_login_success and what run_login does with it *)
Verify ==
    /\ pc = "verify"
    /\ trace' = Append(trace, "verify")
    /\ \E landmark \in BOOLEAN, menu \in BOOLEAN :
          /\ signals' = <<UrlOnTarget(url), OffProvider(url), landmark, menu>>
          /\ indicators' = SuccessIndicators(url, landmark, menu)
    /\ verdict' = IF IsSuccess(indicators') THEN "pass" ELSE "fail"
    /\ failedAt' = IF IsSuccess(indicators') THEN failedAt ELSE "verify"
    /\ Unwind(ExitStatus(IsSuccess(indicators')))
    /\ UNCHANGED <<credVars, providerButton, loadIdle, clockVars, browser, pageOpen, url, current_url, exitCode,
                   interrupted, credsTyped, tfaVars, devVars>>

(* ------------------------------ the interrupt signal -------------------- *)

(* positions where the script is inside a `try: ... except:` with a bare    *)
(* except clause (lines 54, 160, 200, 242, 290, 359, 375)                   *)
InBareExcept ==
    \/ pc \in {"button", "creds_submit", "oauth_click", "tfa_find", "tfa_fill",
               "tfa_check", "verify"}
    \/ pc = "dev_poll" /\ i > 0 /\ ChecksAtIteration(i - 1)

(* positions inside run_login's try where the script sleeps or calls the    *)
(* page outside any bare except clause                                      *)
OutsideBareExcept ==
    pc \in {"goto", "idle", "redirect", "creds_form", "creds_wait", "dev_poll",
            "tfa_start", "tfa_find", "tfa_fill", "tfa_check", "step9",
            "oauth_wait", "final_wait"}

(* lines 521-523: KeyboardInterrupt reaches run_login's handler *)
InterruptPropagates ==
    /\ OutsideBareExcept
    /\ interrupted' = TRUE
    /\ Unwind(EXIT_INTERRUPT)
    /\ UNCHANGED <<credVars, providerButton, loadIdle, clockVars, browser, pageOpen, url, current_url, exitCode,
                   trace, failedAt, credsTyped, tfaVars, devVars, verifyVars>>

(* KeyboardInterrupt raised inside a bare except clause: the clause takes   *)
(* it for a failed probe and the helper goes on                             *)
InterruptSwallowed ==
    /\ InBareExcept
    /\ ~interrupted
    /\ interrupted' = TRUE
    /\ UNCHANGED <<pc, credVars, providerButton, loadIdle, clockVars, browser, pageOpen, url, current_url, pending,
                   exitCode, trace, failedAt, credsTyped, tfaVars, devVars,
                   verifyVars>>

(* ------------------------------ specification --------------------------- *)

Next ==
    \/ CheckCredentials
    \/ LaunchBrowser
    \/ NewContextPage
    \/ Goto
    \/ WaitIdleAfterLoad
    \/ ClickProviderButton
    \/ WaitRedirect
    \/ Step6Login
    \/ FillCredentials
    \/ SubmitCredentials
    \/ WaitAfterLogin
    \/ Step7Device
    \/ DeviceTick
    \/ DeviceFinalCheck
    \/ DeviceReturn
    \/ Step8TwoFactor
    \/ TfaStart
    \/ TfaGenerate
    \/ TfaFindInput
    \/ TfaFillSubmit
    \/ TfaCheck
    \/ TfaReturn
    \/ Step9OAuth
    \/ OAuthClick
    \/ OAuthWait
    \/ FinalWait
    \/ Verify
    \/ InterruptPropagates
    \/ InterruptSwallowed
    \/ Finally
    \/ PlaywrightExit

Spec == Init /\ [][Next]_vars

(* the interpreter keeps executing the script: whenever some step can be    *)
(* taken, one eventually is                                                 *)
FairSpec == Spec /\ WF_vars(Next)

Terminated == pc = "exited"

Unwinding == pc \in {"finally", "with_exit", "exited"}

TrueSignals == Cardinality({k \in 1..4 : signals[k]})

(* ------------------------------ properties ------------------------------ *)

(* C1: with the username or the password missing or empty the run ends at   *)
(* once with a non-zero status; no browser is launched, no page is opened   *)
(* and nothing is navigated.                                                *)
C1_MissingCredentialsExitAtOnce ==
    (username = "" \/ password = "") =>
        /\ pc \in {"start", "exited"}
        /\ pc = "exited" => exitCode = EXIT_FAILURE /\ exitCode # 0
        /\ browser = "none"
        /\ ~pageOpen
        /\ url = <<>>
        /\ trace = <<>>

C1_Witness ==
    /\ Terminated
    /\ username # ""
    /\ password = ""
    /\ exitCode = EXIT_FAILURE
    /\ browser = "none"

(* C2: the process ends with status 0 exactly when verify_login_success was *)
(* evaluated and passed; every other ending (missing credentials, a fatal   *)
(* step, an unconfirmed login, an interrupt, an exception) is non-zero.     *)
C2_ZeroIffVerified ==
    Terminated =>
        /\ exitCode \in {0, EXIT_FAILURE, EXIT_INTERRUPT}
        /\ (exitCode = 0) <=> (verdict = "pass" /\ Did("verify"))
        /\ failedAt # "none" => exitCode # 0

C2_Witness ==
    /\ Terminated
    /\ exitCode = 0
    /\ verdict = "pass"
    /\ Did("credentials")
    /\ Did("twofactor")

(* C3: once the browser has been launched it is closed on every path by     *)
(* which the run ends; from the moment the flow's try block is entered      *)
(* (the page exists) it is closed by browser.close() itself.                *)
C3_BrowserClosedAtExit ==
    Terminated =>
        /\ browser # "open"
        /\ pageOpen => browser = "closed"

C3_Witness ==
    /\ Terminated
    /\ browser = "closed"
    /\ exitCode = EXIT_INTERRUPT
    /\ Did("twofactor")

(* C4: an interrupt delivered at any point of the login flow ends the run   *)
(* with status 130, and no further flow step runs after it.                 *)
C4_InterruptEndsRun ==
    interrupted =>
        /\ Unwinding
        /\ pending = EXIT_INTERRUPT
        /\ Terminated => exitCode = EXIT_INTERRUPT

(* C5: verify_login_success reports success exactly when at least 2 of its  *)
(* four signals are present, each signal counting once.                     *)
C5_SuccessIffTwoSignals ==
    verdict # "none" =>
        /\ Len(indicators) = TrueSignals
        /\ (verdict = "pass") <=> (TrueSignals >= 2)

C5_Witness ==
    /\ verdict = "pass"
    /\ TrueSignals = 2
    /\ signals[1]
    /\ ~signals[2]

(* C6, as stated: with a non-empty seed and a page that stays on the        *)
(* two-factor location, handle_2fa_verification generates exactly           *)
(* MAX_2FA_RETRIES codes and then returns failure.                          *)
C6_NonEmptySeedThreeCodes ==
    (pc = "tfa_ret" /\ totp_secret # "" /\ IsTwoFactor(url)) =>
        /\ codes = MAX_2FA_RETRIES
        /\ tfaResult = "fail"

(* C6, amended: with a seed that pyotp can decode and a page that stays on  *)
(* the two-factor location, handle_2fa_verification generates exactly       *)
(* MAX_2FA_RETRIES codes and then returns failure, whichever path each      *)
(* attempt takes; with a non-empty seed that cannot be decoded it returns   *)
(* failure in the first attempt without having generated a code.            *)
C6_DecodableSeedThreeCodes ==
    /\ (pc = "tfa_ret" /\ SeedDecodes(totp_secret) /\ IsTwoFactor(url)) =>
          /\ codes = MAX_2FA_RETRIES
          /\ tfaResult = "fail"
    /\ (pc = "tfa_ret" /\ totp_secret # "" /\ ~SeedDecodes(totp_secret)) =>
          /\ codes = 0
          /\ attempt = 0
          /\ tfaResult = "fail"

C6_Witness ==
    /\ pc = "tfa_ret"
    /\ SeedDecodes(totp_secret)
    /\ IsTwoFactor(url)
    /\ tfaResult = "fail"
    /\ codes = MAX_2FA_RETRIES
    /\ submissions = 1
    /\ windowSleeps = 1

C8_DevicePollReportsPromptly ==
    /\ i <= DEVICE_WAIT_TICKS
    /\ (pc \in {"dev_poll", "dev_final"} /\ devLeftAt > 0) => i <= devLeftAt
    /\ (pc = "dev_ret" /\ devResult = "ok" /\ devLeftAt > 0) => devTicks <= devLeftAt + 1
    /\ (pc = "dev_ret" /\ devTicks = DEVICE_WAIT_TICKS /\ IsDeviceVerification(url)) =>
          devResult = "fail"

(* C9: after a fatal step failure (credentials, device verification,        *)
(* two-factor) the run exits non-zero and no later flow step is executed.   *)
C9_NoStepAfterFatalFailure ==
    /\ failedAt \in {"credentials", "device", "twofactor"} =>
          /\ Unwinding
          /\ pending = EXIT_FAILURE
          /\ Terminated => exitCode = EXIT_FAILURE /\ exitCode # 0
          /\ ~Did("oauth") /\ ~Did("verify")
    /\ failedAt = "credentials" =>
          /\ ~Did("device") /\ ~Did("twofactor")
          /\ devResult = "none" /\ codes = 0
    /\ failedAt = "device" => ~Did("twofactor") /\ codes = 0
    /\ (devResult = "fail" /\ pc # "dev_ret") => failedAt = "device"
    /\ (tfaResult = "fail" /\ pc # "tfa_ret") => failedAt = "twofactor"

C9_Witness ==
    /\ Terminated
    /\ failedAt = "credentials"
    /\ credsTyped
    /\ exitCode = EXIT_FAILURE
    /\ trace = <<"load", "button", "credentials">>

(* C10: when no provider-login control can be activated, a location that    *)
(* does not look like a sign-in page lets the run continue with the         *)
(* remaining steps, and one that does makes the run fail with a non-zero    *)
(* status before any credential, device, two-factor or OAuth step.          *)
C10_ProviderButtonAbsent ==
    /\ [][(pc = "button" /\ providerButton' = "absent") =>
             IF Contains(<<"signin">>, Lower(url))
             THEN pc' = "finally" /\ pending' = EXIT_FAILURE /\ failedAt' = "button"
             ELSE pc' = "redirect" /\ pending' = pending /\ failedAt' = failedAt
         ]_vars
    /\ [](failedAt = "button" =>
             /\ Unwinding
             /\ trace = <<"load", "button">>
             /\ ~credsTyped
             /\ codes = 0
             /\ devResult = "none"
             /\ Terminated => exitCode = EXIT_FAILURE /\ exitCode # 0)

C10_Witness ==
    /\ Terminated
    /\ providerButton = "absent"
    /\ trace = <<"load", "button", "verify">>
    /\ verdict = "pass"
    /\ exitCode = 0

(* C11: when the flow reaches the two-factor step and no TOTP seed is        *)
(* configured, handle_2fa_verification fails at once: no code is generated, *)
(* no input is looked for or filled, nothing is retried or slept on, and    *)
(* the run exits non-zero without a later step.                             *)
C11_NoSeedFailsAtOnce ==
    totp_secret = "" =>
        /\ pc \notin {"tfa_gen", "tfa_find", "tfa_fill", "tfa_check"}
        /\ codes = 0 /\ submissions = 0 /\ windowSleeps = 0 /\ attempt = 0
        /\ tfaResult # "ok"
        /\ Did("twofactor") => ~Did("oauth") /\ ~Did("verify")
        /\ (Did("twofactor") /\ Terminated) => exitCode # 0

C11_Witness ==
    /\ Terminated
    /\ totp_secret = ""
    /\ failedAt = "twofactor"
    /\ tfaResult = "fail"
    /\ exitCode = EXIT_FAILURE

(* C12: a timeout of the network-idle wait that follows loading the target *)
(* URL is not fatal: the run proceeds to the provider-button step.          *)
C12_LoadIdleTimeoutNotFatal ==
    loadIdle = "timeout" =>
        /\ pc = "button" \/ Did("button")
        /\ ~(pc = "finally" /\ trace = <<"load">>)

(* C13: each conditional step decides on the page's location as it is when  *)
(* the decision is taken; the OAuth-consent decision is taken on the        *)
(* location read at that step, after the wait that precedes it, so a page   *)
(* that is on the consent URL then always gets the authorize attempt.       *)
C13_DecisionsOnFreshLocation ==
    /\ pc = "creds_form" => IsLoginForm(url)
    /\ (pc = "dev_poll" /\ i = 0) => IsDeviceVerification(url)
    /\ pc = "tfa_start" => IsTwoFactor(url)
    /\ (pc = "final_wait" /\ ~Did("oauth")) => ~IsOAuthAuthorize(url)

StepOrder ==
    <<"load", "button", "credentials", "device", "twofactor", "oauth", "verify">>

StepIndex(step) == CHOOSE k \in 1..Len(StepOrder) : StepOrder[k] = step

PcOrder ==
    <<"start", "launch", "context", "goto", "idle", "button", "redirect", "step6",
      "creds_form", "creds_submit", "creds_wait", "step7", "dev_poll", "dev_final",
      "dev_ret", "step8", "tfa_start", "tfa_gen", "tfa_find", "tfa_fill",
      "tfa_check", "tfa_ret", "step9", "oauth_click", "oauth_wait", "final_wait",
      "verify", "finally", "with_exit", "exited">>

PcIndex(p) == CHOOSE k \in 1..Len(PcOrder) : PcOrder[k] = p

(* C15: the flow is never retried: the steps are entered in the fixed order *)
(* load, provider button, credentials, device verification, two-factor,     *)
(* OAuth consent, success heuristic, each at most once (so the target is    *)
(* loaded and the credentials are submitted at most once); the only         *)
(* repetitions are the ticks of the device poll and the 2FA attempts.       *)
C15_NoRetryOfTheFlow ==
    /\ [](\A a, b \in 1..Len(trace) :
             a < b => StepIndex(trace[a]) < StepIndex(trace[b]))
    /\ [][\/ PcIndex(pc') > PcIndex(pc)
          \/ pc = "dev_poll" /\ pc' = "dev_poll" /\ i' = i + 1
          \/ /\ pc \in {"tfa_find", "tfa_fill", "tfa_check"}
             /\ pc' = "tfa_gen"
             /\ attempt' = attempt + 1
          \/ pc' = pc /\ trace' = trace /\ ~interrupted /\ interrupted'
         ]_vars

C15_Witness ==
    /\ Terminated
    /\ trace = StepOrder
    /\ codes = 2
    /\ exitCode = 0

(* C16: after a rejected code the sub-protocol sleeps to the next           *)
(* 30-second boundary plus a fixed buffer exactly when attempts remain, so  *)
(* the next code is generated in a strictly later 30-second window than the *)
(* rejected one; after the last attempt it does not sleep.                  *)
C16_RetryInLaterWindow ==
    /\ []((pc = "tfa_find" /\ rejectedAt >= 0) =>
             (codeAt \div 30) > (rejectedAt \div 30))
    /\ [][/\ (pc = "tfa_check" /\ IsTwoFactor(url) /\ pc' \notin {"tfa_check", "finally"}) =>
               IF attempt < MAX_2FA_RETRIES - 1
               THEN /\ windowSleeps' = windowSleeps + 1
                    /\ clock' = 30 * ((clock \div 30) + 1) + 2
                    /\ pc' = "tfa_gen"
               ELSE /\ windowSleeps' = windowSleeps
                    /\ clock' = clock
                    /\ pc' = "tfa_ret"
          /\ windowSleeps' # windowSleeps =>
               pc = "tfa_check" /\ IsTwoFactor(url) /\ attempt < MAX_2FA_RETRIES - 1
         ]_vars

C16_Witness ==
    /\ pc = "tfa_find"
    /\ rejectedAt >= 0
    /\ windowSleeps = 1
    /\ rejectedAt = 29
    /\ codeAt = 62

(* C17, as stated: over the phases 0..29 of the clock the wait before a 2FA *)
(* retry lies between just under 1 second and just under 32 seconds.        *)
C17_WaitBetweenOneAndUnder32 ==
    lastWait # 0 => (lastWait > 0 /\ lastWait < 32)

(* C17, amended: the wait before a 2FA retry is 32 - (clock % 30): over the *)
(* phases 0..29 it goes from 3 seconds (phase 29) to 32 seconds (phase 0),  *)
(* never less than the 2-second buffer, and it ends 2 seconds into the next *)
(* window.                                                                  *)
C17_WaitBetween3And32 ==
    lastWait # 0 =>
        /\ lastWait >= 3
        /\ lastWait <= 32
        /\ clock % 30 = 2
        /\ (clock - lastWait) % 30 = 32 - lastWait

C17_Witness ==
    /\ pc = "tfa_gen"
    /\ lastWait = 3
    /\ windowSleeps = 1
    /\ attempt = 1

(* C18: every run terminates: whatever the page does, the run reaches its   *)
(* exit, with at most MAX_2FA_RETRIES 2FA attempts (and codes) and at most  *)
(* 60 device-verification ticks on the way.                                 *)
C18_EveryRunTerminates ==
    /\ <>Terminated
    /\ [](/\ attempt < MAX_2FA_RETRIES
          /\ codes <= MAX_2FA_RETRIES
          /\ submissions <= MAX_2FA_RETRIES
          /\ i <= DEVICE_WAIT_TICKS
          /\ devTicks <= DEVICE_WAIT_TICKS)

C18_Witness ==
    /\ Terminated
    /\ Did("device")
    /\ Did("twofactor")
    /\ codes = MAX_2FA_RETRIES
    /\ failedAt = "twofactor"

(* C19, as stated: whenever the run ends with status 0 the final location   *)
(* is not on the provider's host.                                           *)
C19_SuccessOnlyOffProvider ==
    (Terminated /\ exitCode = 0) => ~Contains(<<"github.com">>, url)

(* C19, amended: whenever the run ends with status 0 while the final        *)
(* location is on the provider's host, at least two of the three other      *)
(* signals (target host in the URL without sign-in marker, landmark phrase, *)
(* user-menu element) were present: being on github.com withholds one       *)
(* point, it does not prevent success.                                      *)
C19_SuccessOnProviderNeedsTwoOthers ==
    (Terminated /\ exitCode = 0) =>
        /\ signals[2] = ~Contains(<<"github.com">>, url)
        /\ \/ ~Contains(<<"github.com">>, url)
           \/ Cardinality({k \in {1, 3, 4} : signals[k]}) >= 2

C19_Witness ==
    /\ Terminated
    /\ exitCode = 0
    /\ Contains(<<"github.com">>, url)
    /\ ~signals[1]
    /\ signals[3]
    /\ signals[4]

(* C20: the username and the password are typed into the page only after    *)
(* the location read immediately before matched the provider's login-form   *)
(* pattern (github.com/login or github.com/session); in a run where it did  *)
(* not match they are never typed.                                          *)
C20_CredentialsOnlyOnLoginForm ==
    /\ [](credsTyped => Did("credentials"))
    /\ [][/\ (pc' = "creds_form" /\ pc # "creds_form") =>
               /\ pc = "step6"
               /\ current_url = url
               /\ \/ Contains(<<"github.com", "/", "login">>, current_url)
                  \/ Contains(<<"github.com", "/", "session">>, current_url)
          /\ (credsTyped' /\ ~credsTyped) => pc = "creds_form"
          /\ Did("credentials")' => (Did("credentials") \/ pc = "step6")
         ]_vars

C20_Witness ==
    /\ Terminated
    /\ credsTyped
    /\ exitCode = 0
    /\ trace = <<"load", "button", "credentials", "verify">>

=============================================================================
